---- MODULE Spec2Model ----
(***************************************************************************)
(* Model of perfprofd's binder service (perfprofd_binder.cc): the          *)
(* BinderConfig object (config fields, is_profiling, interrupted_,         *)
(* mutex_/cv_), the PerfProfdNativeService (lock_, cur_config_, seq_),     *)
(* the binder threads calling startProfiling / startProfilingProtobuf /    *)
(* stopProfiling, and the detached profiling threads that run              *)
(* ProfilingLoop and then clear is_profiling.                              *)
(***************************************************************************)
EXTENDS Integers, FiniteSets, Sequences, TLC

VARIABLES
  cur_config_,   \* PerfProfdNativeService::cur_config_ (a BinderConfig)
  lock_,         \* owner of PerfProfdNativeService::lock_
  mutex_,        \* owner of BinderConfig::mutex_
  seq_,          \* PerfProfdNativeService::seq_
  cpc,           \* position of each binder thread inside its call
  call,          \* the call each binder thread is executing, with its arguments
  result,        \* the Status the last call of each binder thread returned
  wpc,           \* position of each profiling thread
  nsessions,     \* number of times is_profiling went false -> true
  stopSession,   \* history: session during which interrupted_ was last set by stopProfiling
  returned,      \* what the capture engine's last call (Sleep,
                 \* ShouldStopProfiling, handler) did and returned
  shell,         \* per binder thread: whether its call was made by
                 \* shellCommand, and the status_t shellCommand returned
  history        \* history: the handler's file-backed attempts and failures
                 \* and the size of the last profile, when they are recorded

vars == <<cur_config_, lock_, mutex_, seq_, cpc, call, result, wpc,
          nsessions, stopSession, returned, shell, history>>

----------------------------------------------------------------------------
(* Bounds *)

MaxSessions == 2       \* sessions started in one behaviour
MaxSeq == 2            \* file-backed deliveries counted in one behaviour
MaxFailures == 2       \* failed file-backed deliveries recorded in one behaviour

----------------------------------------------------------------------------
(* Threads and lock owners *)

Callers == {<<"binder", 1>>, <<"binder", 2>>}
Workers == {<<"profiling", s>> : s \in 1..MaxSessions}
Worker(s) == <<"profiling", s>>
Free == <<"free", 0>>

\* A uint32_t value is kept as its two 16-bit halves <<high, low>>.
TwoTo16 == 65536

\* static_cast<uint32_t>(int32_t): the value modulo 2^32.
ToUint32(x) == <<(x \div TwoTo16) % TwoTo16, x % TwoTo16>>

----------------------------------------------------------------------------
(* Config values *)

\* Config's own defaults (config.h); only their being fixed matters here.
ConfigDefaults ==
  [ collection_interval_in_s        |-> ToUint32(14400),
    use_fixed_seed                  |-> ToUint32(0),
    main_loop_iterations            |-> ToUint32(0),
    destination_directory           |-> "/data/misc/perfprofd",
    config_directory                |-> "/data/data/com.google.android.gms/files",
    perf_path                       |-> "/system/xbin/simpleperf",
    sampling_period                 |-> ToUint32(500000),
    sample_duration_in_s            |-> ToUint32(2),
    only_debug_build                |-> TRUE,
    hardwire_cpus                   |-> TRUE,
    hardwire_cpus_max_duration_in_s |-> ToUint32(5),
    max_unprocessed_profiles        |-> ToUint32(10),
    stack_profile                   |-> FALSE,
    collect_cpu_utilization         |-> TRUE,
    collect_charging_state          |-> TRUE,
    collect_booting                 |-> TRUE,
    collect_camera_active           |-> FALSE,
    process                         |-> -1,
    use_elf_symbolizer              |-> TRUE ]

BaseFields == DOMAIN ConfigDefaults

\* BinderConfig(): a default-constructed BinderConfig object.
BinderConfig ==
  [ f \in BaseFields \cup {"send_to_dropbox", "is_profiling", "interrupted_"} |->
      IF f \in BaseFields THEN ConfigDefaults[f]
      ELSE IF f = "send_to_dropbox" THEN TRUE
      ELSE FALSE ]

ProtoFields == BaseFields \cup {"send_to_dropbox"}

\* BinderConfig::operator=: copies the Config base fields and
\* send_to_dropbox; is_profiling, interrupted_, mutex_, cv_ are retained.
AssignCopiesRunning(lhs, rhs) ==
  [ f \in DOMAIN lhs |->
      IF f \in ProtoFields \cup {"is_profiling"} THEN rhs[f] ELSE lhs[f] ]

Assign(lhs, rhs) ==
  [ f \in DOMAIN lhs |-> IF f \in ProtoFields THEN rhs[f] ELSE lhs[f] ]

\* The settings of a BinderConfig, without the session flags.
Settings(c) == [ f \in ProtoFields |-> c[f] ]

----------------------------------------------------------------------------
(* Inputs *)

\* Arguments of startProfiling(profilingDuration, profilingInterval, iterations).
SimpleArgs ==
  { [duration |-> -1, interval |-> 10, iterations |-> 1] }

NoArgs == [duration |-> 0, interval |-> 0, iterations |-> 0]

\* Field values of a ProfilingConfig message (proto accessors name()); each
\* differs from the field's default.
ProtoValues(iter, dir, dropbox) ==
  [ collection_interval_in_s        |-> ToUint32(0),
    use_fixed_seed                  |-> ToUint32(7),
    main_loop_iterations            |-> ToUint32(iter),
    destination_directory           |-> dir,
    config_directory                |-> "/cfg",
    perf_path                       |-> "/perf",
    sampling_period                 |-> ToUint32(1000),
    sample_duration_in_s            |-> ToUint32(0),
    only_debug_build                |-> FALSE,
    hardwire_cpus                   |-> FALSE,
    hardwire_cpus_max_duration_in_s |-> ToUint32(9),
    max_unprocessed_profiles        |-> ToUint32(1),
    stack_profile                   |-> TRUE,
    collect_cpu_utilization         |-> FALSE,
    collect_charging_state          |-> FALSE,
    collect_booting                 |-> FALSE,
    collect_camera_active           |-> TRUE,
    process                         |-> 42,
    use_elf_symbolizer              |-> FALSE,
    send_to_dropbox                 |-> dropbox ]

\* Serialized descriptors handed to startProfilingProtobuf: whether the bytes
\* parse, which optional fields they carry (has_name()) and their values.
NoDescriptor ==
  [ wellformed |-> TRUE, has |-> {}, val |-> ProtoValues(0, "", FALSE) ]

Descriptors ==
  { [ wellformed |-> FALSE, has |-> {"send_to_dropbox"},
      val |-> ProtoValues(0, "", FALSE) ],
    [ wellformed |-> TRUE, has |-> {"send_to_dropbox", "destination_directory"},
      val |-> ProtoValues(0, "/tmp", FALSE) ] }

ParseAlwaysOk(desc) == TRUE

\* proto_config.ParseFromArray(data, size)
ParseFromArray(desc) == desc.wellformed

\* Seconds the capture engine passes to Sleep.
SleepSeconds == {0, 5}

OneMiB == 1024 * 1024

\* Encoded profiles handed to the handler: ByteSize(), or a null pointer.
NullProfile == -1
Profiles == {NullProfile, OneMiB - 1, OneMiB}

----------------------------------------------------------------------------
(* Status values *)

EX_NONE == 0
EX_SERVICE_SPECIFIC == -8

\* binder::Status::ok()
StatusOk == [exceptionCode |-> EX_NONE, serviceSpecificErrorCode |-> 0]
\* binder::Status::fromServiceSpecificError(code)
FromServiceSpecificError(code) ==
  [exceptionCode |-> EX_SERVICE_SPECIFIC, serviceSpecificErrorCode |-> code]
\* binder::Status::fromExceptionCode(code)
FromExceptionCode(code) ==
  [exceptionCode |-> code, serviceSpecificErrorCode |-> 0]

\* No Status yet: the call has not returned.
NoStatus == [exceptionCode |-> EX_NONE, serviceSpecificErrorCode |-> -1]
Pending == [op |-> "none", status |-> NoStatus]

\* Status::isOk()
IsOk(status) == status.exceptionCode = EX_NONE

\* Status::serviceSpecificErrorCode(): the code of a service-specific error,
\* 0 for every other Status.
ServiceSpecificErrorCode(status) ==
  IF status.exceptionCode = EX_SERVICE_SPECIFIC
    THEN status.serviceSpecificErrorCode
    ELSE 0

\* status_t values shellCommand returns.
OK == 0
BAD_VALUE == -22

\* shellCommand: if (status.isOk()) return OK; else return
\* status.serviceSpecificErrorCode().
ShellStatus(status) ==
  IF IsOk(status) THEN OK ELSE ServiceSpecificErrorCode(status)

\* The outcomes of the control surface, as the Status each is returned as.
Started == StatusOk
Stopped == StatusOk
AlreadyRunning == FromServiceSpecificError(1)
NotRunning == FromServiceSpecificError(1)
MalformedConfig == FromExceptionCode(2)

----------------------------------------------------------------------------
(* Config derivation *)

SimpleConfigFnNoReset(config, a) ==
  [ config EXCEPT
      !.sample_duration_in_s     = ToUint32(a.duration),
      !.collection_interval_in_s = ToUint32(a.interval),
      !.main_loop_iterations     = ToUint32(a.iterations) ]

\* config_fn of startProfiling: config = BinderConfig(), then the three
\* arguments are stored.
SimpleConfigFn(config, a) ==
  [ Assign(config, BinderConfig) EXCEPT
      !.sample_duration_in_s     = ToUint32(a.duration),
      !.collection_interval_in_s = ToUint32(a.interval),
      !.main_loop_iterations     = ToUint32(a.iterations) ]

\* The fields named in a CHECK_AND_COPY_FROM_PROTO line.
CopiedFromProto ==
  { "collection_interval_in_s", "use_fixed_seed", "main_loop_iterations",
    "destination_directory", "config_directory", "perf_path",
    "sampling_period", "sample_duration_in_s", "only_debug_build",
    "hardwire_cpus", "hardwire_cpus_max_duration_in_s",
    "max_unprocessed_profiles", "stack_profile", "collect_cpu_utilization",
    "collect_charging_state", "collect_booting", "collect_camera_active",
    "process", "use_elf_symbolizer", "send_to_dropbox" }

ProtoConfigFnNoReset(config, desc) ==
  [ f \in DOMAIN config |->
      IF f \in CopiedFromProto /\ f \in desc.has THEN desc.val[f] ELSE config[f] ]

\* config_fn of StartProfilingProtobuf: config = BinderConfig(), then
\* CHECK_AND_COPY_FROM_PROTO per field.
ProtoConfigFn(config, desc) ==
  LET fresh == Assign(config, BinderConfig)
  IN [ f \in DOMAIN fresh |->
         IF f \in CopiedFromProto /\ f \in desc.has THEN desc.val[f] ELSE fresh[f] ]

NoCall == [kind |-> "none", args |-> NoArgs, desc |-> NoDescriptor]

\* fn(cur_config_) for the call a binder thread is executing.
ConfigFn(config, c) ==
  IF c.kind = "simple" THEN SimpleConfigFn(config, c.args)
  ELSE ProtoConfigFn(config, c.desc)

----------------------------------------------------------------------------
(* State *)

running == cur_config_.is_profiling
cancelled == cur_config_.interrupted_

\* shellCommand is not involved in the binder thread's call.
NoShell == [active |-> FALSE, done |-> FALSE, ret |-> 0, argv |-> <<>>]

\* What has happened is not recorded / is recorded from the start: the
\* handler's file-backed attempts, how many of them failed, the size of the
\* last profile handed to it, and the settings fn(cur_config_) was last
\* applied to.
NoHistory ==
  [ recording |-> FALSE, attempts |-> 0, failures |-> 0, size |-> 0,
    before |-> Settings(BinderConfig) ]
EmptyHistory ==
  [ recording |-> TRUE, attempts |-> 0, failures |-> 0, size |-> 0,
    before |-> Settings(BinderConfig) ]

\* Nothing returned yet.
NoReturn == [session |-> 0, call |-> "none", value |-> FALSE, seq |-> 0]

Init ==
  /\ cur_config_ = BinderConfig
  /\ lock_ = Free
  /\ mutex_ = Free
  /\ seq_ = 0
  /\ cpc = [t \in Callers |-> "idle"]
  /\ call = [t \in Callers |-> NoCall]
  /\ result = [t \in Callers |-> Pending]
  /\ wpc = [w \in Workers |-> "unborn"]
  /\ nsessions = 0
  /\ stopSession = 0
  /\ returned = NoReturn
  /\ shell = [t \in Callers |-> NoShell]
  /\ history = NoHistory

----------------------------------------------------------------------------
(* Binder threads: startProfiling, startProfilingProtobuf, stopProfiling *)

StartsInFlight ==
  Cardinality({t \in Callers : cpc[t] \in {"parse", "start_lock"}})

\* The call returns status; when shellCommand made the call, shellCommand
\* returns OK for an ok status and status.serviceSpecificErrorCode() otherwise.
Return(t, status) ==
  /\ cpc' = [cpc EXCEPT ![t] = "idle"]
  /\ call' = [call EXCEPT ![t] = NoCall]
  /\ result' = [result EXCEPT ![t] = [op |-> call[t].kind, status |-> status]]
  /\ shell' = IF shell[t].active
                THEN [shell EXCEPT ![t] = [active |-> FALSE, done |-> TRUE,
                                           ret |-> ShellStatus(status),
                                           argv |-> shell[t].argv]]
                ELSE shell

Goto(t, pc) ==
  /\ cpc' = [cpc EXCEPT ![t] = pc]
  /\ UNCHANGED <<call, result, shell>>

\* A binder thread enters call c at position pc, from binder (by = NoShell)
\* or from shellCommand.
Enter(t, c, pc, by) ==
  /\ cpc' = [cpc EXCEPT ![t] = pc]
  /\ call' = [call EXCEPT ![t] = c]
  /\ result' = [result EXCEPT ![t] = Pending]
  /\ shell' = [shell EXCEPT ![t] = by]

\* A binder thread enters startProfiling(duration, interval, iterations).
CallStartSimple(t, a) ==
  /\ cpc[t] = "idle"
  /\ nsessions + StartsInFlight < MaxSessions
  /\ Enter(t, [kind |-> "simple", args |-> a, desc |-> NoDescriptor], "start_lock",
           NoShell)
  /\ UNCHANGED <<cur_config_, lock_, mutex_, seq_, history, wpc, nsessions, stopSession,
                 returned>>

\* A binder thread enters startProfilingProtobuf(config_proto).
CallStartProto(t, d) ==
  /\ cpc[t] = "idle"
  /\ nsessions + StartsInFlight < MaxSessions
  /\ Enter(t, [kind |-> "proto", args |-> NoArgs, desc |-> d], "parse", NoShell)
  /\ UNCHANGED <<cur_config_, lock_, mutex_, seq_, history, wpc, nsessions, stopSession,
                 returned>>

\* A binder thread enters stopProfiling().
CallStop(t) ==
  /\ cpc[t] = "idle"
  /\ Enter(t, [kind |-> "stop", args |-> NoArgs, desc |-> NoDescriptor], "stop_lock",
           NoShell)
  /\ UNCHANGED <<cur_config_, lock_, mutex_, seq_, history, wpc, nsessions, stopSession,
                 returned>>

\* strtol(s, nullptr, 0) for a string without leading white space and a value
\* within int32_t: an optional sign, the base taken from the prefix, then the
\* longest run of digits of that base; 0 when there is none. The end pointer
\* is not looked at, so trailing characters are ignored.
DigitValue(c) ==
  CASE c = "0" -> 0 [] c = "1" -> 1 [] c = "2" -> 2 [] c = "3" -> 3
    [] c = "4" -> 4 [] c = "5" -> 5 [] c = "6" -> 6 [] c = "7" -> 7
    [] c = "8" -> 8 [] c = "9" -> 9 [] c \in {"a", "A"} -> 10
    [] c \in {"b", "B"} -> 11 [] c \in {"c", "C"} -> 12
    [] c \in {"d", "D"} -> 13 [] c \in {"e", "E"} -> 14
    [] c \in {"f", "F"} -> 15 [] OTHER -> 99

CharAt(s, i) == IF i <= Len(s) THEN SubSeq(s, i, i) ELSE ""

RECURSIVE Digits(_, _, _, _)
Digits(s, i, base, acc) ==
  IF DigitValue(CharAt(s, i)) >= base
    THEN acc
    ELSE Digits(s, i + 1, base, acc * base + DigitValue(CharAt(s, i)))

Strtol(s) ==
  LET signed == CharAt(s, 1) \in {"-", "+"}
      first  == IF signed THEN 2 ELSE 1
      hex    == /\ CharAt(s, first) = "0"
                /\ CharAt(s, first + 1) \in {"x", "X"}
                /\ DigitValue(CharAt(s, first + 2)) < 16
      base   == IF hex THEN 16 ELSE IF CharAt(s, first) = "0" THEN 8 ELSE 10
      start  == IF hex THEN first + 2 ELSE first
      value  == Digits(s, start, base, 0)
  IN IF CharAt(s, 1) = "-" THEN 0 - value ELSE value

\* Argument vectors of shellCommand.
ShellArgs ==
  { <<>>,
    <<"bogus">>,
    <<"dump">>,
    <<"startProfiling", "5", "10", "1">>,
    <<"startProfiling", "5", "10">>,
    <<"startProfiling", "abc", "10", "1">>,
    <<"startProfiling", "5", "0x10", "1", "extra">>,
    <<"startProfilingProto">>,
    <<"startProfilingProto", "-">>,
    <<"startProfilingProto", "/data/config">>,
    <<"stopProfiling">> }

\* The descriptor `in` of shellCommand: a negative value or an open one.
ShellIn == {-1, 3}

\* PerfProfdNativeService::shellCommand(in, out, err, args); d is the
\* descriptor that StartProfilingProtobufFd reads from `in`.
ShellCommand(t, argv, in, d) ==
  /\ cpc[t] = "idle"
  /\ LET by == [active |-> TRUE, done |-> FALSE, ret |-> 0, argv |-> argv]
         Immediate(code) ==
           /\ shell' = [shell EXCEPT ![t] = [active |-> FALSE, done |-> TRUE,
                                              ret |-> code, argv |-> argv]]
           /\ result' = [result EXCEPT ![t] = Pending]
           /\ UNCHANGED <<cpc, call>>
     IN IF Len(argv) >= 1
          THEN CASE argv[1] = "dump" -> Immediate(OK)
                 [] argv[1] = "startProfiling" ->
                      IF Len(argv) < 4
                        THEN Immediate(BAD_VALUE)
                        ELSE /\ nsessions + StartsInFlight < MaxSessions
                             /\ Enter(t, [kind |-> "simple",
                                          args |-> [duration   |-> Strtol(argv[2]),
                                                    interval   |-> Strtol(argv[3]),
                                                    iterations |-> Strtol(argv[4])],
                                          desc |-> NoDescriptor],
                                      "start_lock", by)
                 [] argv[1] = "startProfilingProto" ->
                      IF Len(argv) < 2
                        THEN Immediate(BAD_VALUE)
                        ELSE LET fd == IF argv[2] = "-" THEN in ELSE -1
                             IN IF fd < 0
                                  THEN Immediate(BAD_VALUE)
                                  ELSE /\ nsessions + StartsInFlight < MaxSessions
                                       /\ Enter(t, [kind |-> "proto", args |-> NoArgs,
                                                    desc |-> d],
                                                "parse", by)
                 [] argv[1] = "stopProfiling" ->
                      Enter(t, [kind |-> "stop", args |-> NoArgs,
                                desc |-> NoDescriptor],
                            "stop_lock", by)
                 [] OTHER -> Immediate(BAD_VALUE)
          ELSE Immediate(BAD_VALUE)
  /\ UNCHANGED <<cur_config_, lock_, mutex_, seq_, history, wpc, nsessions,
                 stopSession, returned>>

ProtoParseAfterCheck(t) ==
  /\ cpc[t] = "parse"
  /\ IF running
       THEN Return(t, AlreadyRunning)
       ELSE IF ParseFromArray(call[t].desc)
         THEN Goto(t, "start_lock")
         ELSE Return(t, MalformedConfig)
  /\ UNCHANGED <<cur_config_, lock_, mutex_, seq_, history, wpc, nsessions, stopSession,
                 returned>>

\* StartProfilingProtobuf: if (!fn(proto_config)) return fromExceptionCode(2).
ProtoParse(t) ==
  /\ cpc[t] = "parse"
  /\ IF ParseFromArray(call[t].desc)
       THEN Goto(t, "start_lock")
       ELSE Return(t, MalformedConfig)
  /\ UNCHANGED <<cur_config_, lock_, mutex_, seq_, history, wpc, nsessions, stopSession,
                 returned>>

\* StartProfiling: the is_profiling test and, when it passes, the flag's set.
StartCheckNoGuard(config) ==
  [ok |-> TRUE, config |-> [config EXCEPT !.is_profiling = TRUE]]

StartCheck(config) ==
  IF config.is_profiling
    THEN [ok |-> FALSE, config |-> config]
    ELSE [ok |-> TRUE, config |-> [config EXCEPT !.is_profiling = TRUE]]

StartLockFnFirst(t) ==
  /\ cpc[t] = "start_lock"
  /\ lock_ = Free
  /\ LET r == StartCheck(cur_config_)
     IN IF r.ok
          THEN /\ cur_config_' = r.config
               /\ lock_' = t
               /\ nsessions' = nsessions + 1
               /\ Goto(t, "start_reset")
          ELSE /\ cur_config_' = ConfigFn(cur_config_, call[t])
               /\ Return(t, AlreadyRunning)
               /\ UNCHANGED <<lock_, nsessions>>
  /\ UNCHANGED <<mutex_, seq_, history, wpc, stopSession, returned>>

\* StartProfiling: lock_guard(lock_); if (is_profiling) return error 1;
\* is_profiling = true.
StartLock(t) ==
  /\ cpc[t] = "start_lock"
  /\ lock_ = Free
  /\ LET r == StartCheck(cur_config_)
     IN IF r.ok
          THEN /\ cur_config_' = r.config
               /\ lock_' = t
               /\ nsessions' = nsessions + 1
               /\ Goto(t, "start_reset")
          ELSE /\ Return(t, AlreadyRunning)
               /\ UNCHANGED <<cur_config_, lock_, nsessions>>
  /\ UNCHANGED <<mutex_, seq_, history, wpc, stopSession, returned>>

\* ResetStopProfiling: unique_lock(mutex_).
StartResetLock(t) ==
  /\ cpc[t] = "start_reset"
  /\ mutex_ = Free
  /\ mutex_' = t
  /\ Goto(t, "start_reset_set")
  /\ UNCHANGED <<cur_config_, lock_, seq_, history, wpc, nsessions, stopSession,
                 returned>>

ResetStopProfilingKeeps(config) == config

\* ResetStopProfiling: interrupted_ = false.
ResetStopProfiling(config) == [config EXCEPT !.interrupted_ = FALSE]

StartResetSet(t) ==
  /\ cpc[t] = "start_reset_set"
  /\ cur_config_' = ResetStopProfiling(cur_config_)
  /\ mutex_' = Free
  /\ Goto(t, "start_fn")
  /\ UNCHANGED <<lock_, seq_, history, wpc, nsessions, stopSession, returned>>

\* StartProfiling: fn(cur_config_); std::thread(profile_runner).detach();
\* return ok (releasing lock_).
StartRun(t) ==
  /\ cpc[t] = "start_fn"
  /\ cur_config_' = ConfigFn(cur_config_, call[t])
  /\ wpc' = [wpc EXCEPT ![Worker(nsessions)] = "engine"]
  /\ lock_' = Free
  /\ Return(t, Started)
  /\ history' = IF history.recording
                  THEN [history EXCEPT !.before = Settings(cur_config_)]
                  ELSE history
  /\ UNCHANGED <<mutex_, seq_, nsessions, stopSession, returned>>

\* stopProfiling: the is_profiling test.
StopRejectsNever(config) == FALSE

StopRejects(config) == ~config.is_profiling

\* stopProfiling: lock_guard(lock_); if (!is_profiling) return error 1.
StopLock(t) ==
  /\ cpc[t] = "stop_lock"
  /\ lock_ = Free
  /\ IF StopRejects(cur_config_)
       THEN /\ Return(t, NotRunning)
            /\ UNCHANGED lock_
       ELSE /\ lock_' = t
            /\ Goto(t, "stop_mutex")
  /\ UNCHANGED <<cur_config_, mutex_, seq_, history, wpc, nsessions, stopSession,
                 returned>>

\* BinderConfig::StopProfiling: unique_lock(mutex_).
StopMutex(t) ==
  /\ cpc[t] = "stop_mutex"
  /\ mutex_ = Free
  /\ mutex_' = t
  /\ Goto(t, "stop_set")
  /\ UNCHANGED <<cur_config_, lock_, seq_, history, wpc, nsessions, stopSession,
                 returned>>

\* BinderConfig::StopProfiling: interrupted_ = true.
StopSet(t) ==
  /\ cpc[t] = "stop_set"
  /\ cur_config_' = [cur_config_ EXCEPT !.interrupted_ = TRUE]
  /\ stopSession' = nsessions
  /\ Goto(t, "stop_notify")
  /\ UNCHANGED <<lock_, mutex_, seq_, history, wpc, nsessions, returned>>

NotifyNone(pcs) == pcs

\* cv_.notify_all(): every thread blocked in cv_.wait_for is woken.
NotifyAll(pcs) ==
  [w \in DOMAIN pcs |-> IF pcs[w] = "sleep_wait" THEN "sleep_woken" ELSE pcs[w]]

\* BinderConfig::StopProfiling: cv_.notify_all(), then mutex_ is released.
StopNotify(t) ==
  /\ cpc[t] = "stop_notify"
  /\ wpc' = NotifyAll(wpc)
  /\ mutex_' = Free
  /\ Goto(t, "stop_return")
  /\ UNCHANGED <<cur_config_, lock_, seq_, history, nsessions, stopSession, returned>>

\* stopProfiling: return Status::ok() (releasing lock_).
StopReturn(t) ==
  /\ cpc[t] = "stop_return"
  /\ lock_' = Free
  /\ Return(t, Stopped)
  /\ UNCHANGED <<cur_config_, mutex_, seq_, history, wpc, nsessions, stopSession,
                 returned>>

----------------------------------------------------------------------------
(* Profiling threads: ProfilingLoop(cur_config_, handler), then the reset   *)
(* of is_profiling.  ProfilingLoop is the capture engine: it calls Sleep,   *)
(* ShouldStopProfiling and the handler in any order and may return.         *)

WGoto(w, pc) == wpc' = [wpc EXCEPT ![w] = pc]

\* Profiling thread w's engine got value v back from call c; n is the seq_
\* the handler named its file with.
Ret(w, c, v, n) == [session |-> w[2], call |-> c, value |-> v, seq |-> n]

\* BinderConfig::Sleep(seconds): returns at once for 0, else takes mutex_.
Sleep(w, seconds) ==
  /\ wpc[w] = "engine"
  /\ IF seconds = 0
       THEN /\ returned' = Ret(w, "sleep0", FALSE, 0)
            /\ UNCHANGED <<mutex_, wpc>>
       ELSE /\ mutex_ = Free
            /\ mutex_' = w
            /\ WGoto(w, "sleep_check")
            /\ UNCHANGED returned
  /\ UNCHANGED <<cur_config_, lock_, seq_, history, cpc, call, result, shell, nsessions,
                 stopSession>>

WaitKeepsMutex(w) == w

\* cv_.wait_for releases mutex_ for as long as the thread is blocked.
WaitReleases(w) == Free

\* cv_.wait_for(guard, d, pred): with mutex_ held, return if pred(), else block.
SleepCheck(w) ==
  /\ wpc[w] = "sleep_check"
  /\ IF cur_config_.interrupted_
       THEN /\ mutex_' = Free
            /\ WGoto(w, "engine")
            /\ returned' = Ret(w, "sleep_interrupted", TRUE, 0)
       ELSE /\ mutex_' = WaitReleases(w)
            /\ WGoto(w, "sleep_wait")
            /\ UNCHANGED returned
  /\ UNCHANGED <<cur_config_, lock_, seq_, history, cpc, call, result, shell, nsessions,
                 stopSession>>

\* A condition variable may wake without a notification.
SleepSpurious(w) ==
  /\ wpc[w] = "sleep_wait"
  /\ WGoto(w, "sleep_woken")
  /\ UNCHANGED <<cur_config_, lock_, mutex_, seq_, history, cpc, call, result, shell, nsessions,
                 stopSession, returned>>

\* A woken waiter re-takes mutex_ and evaluates pred() again.
SleepReacquire(w) ==
  /\ wpc[w] = "sleep_woken"
  /\ mutex_ = Free
  /\ mutex_' = w
  /\ WGoto(w, "sleep_check")
  /\ UNCHANGED <<cur_config_, lock_, seq_, history, cpc, call, result, shell, nsessions,
                 stopSession, returned>>

\* The duration expires: the waiter re-takes mutex_ ...
SleepTimeout(w) ==
  /\ wpc[w] = "sleep_wait"
  /\ mutex_ = Free
  /\ mutex_' = w
  /\ WGoto(w, "sleep_timedout")
  /\ UNCHANGED <<cur_config_, lock_, seq_, history, cpc, call, result, shell, nsessions,
                 stopSession, returned>>

\* ... and wait_for returns pred(); Sleep returns.
SleepTimedOut(w) ==
  /\ wpc[w] = "sleep_timedout"
  /\ mutex_' = Free
  /\ WGoto(w, "engine")
  /\ returned' = Ret(w, "sleep_timeout", cur_config_.interrupted_, 0)
  /\ UNCHANGED <<cur_config_, lock_, seq_, history, cpc, call, result, shell, nsessions,
                 stopSession>>

\* BinderConfig::ShouldStopProfiling: unique_lock(mutex_).
ShouldStopLock(w) ==
  /\ wpc[w] = "engine"
  /\ mutex_ = Free
  /\ mutex_' = w
  /\ WGoto(w, "poll_read")
  /\ UNCHANGED <<cur_config_, lock_, seq_, history, cpc, call, result, shell, nsessions,
                 stopSession, returned>>

\* BinderConfig::ShouldStopProfiling: return interrupted_.
ShouldStopProfiling(w) ==
  /\ wpc[w] = "poll_read"
  /\ mutex_' = Free
  /\ WGoto(w, "engine")
  /\ returned' = Ret(w, "poll", cur_config_.interrupted_, 0)
  /\ UNCHANGED <<cur_config_, lock_, seq_, history, cpc, call, result, shell, nsessions,
                 stopSession>>

DropboxRouteInclusive(size) == IF size <= OneMiB THEN "bytes" ELSE "fd"

\* BinderHandler with send_to_dropbox set: addData for size < 1024 * 1024,
\* WriteDropboxFile otherwise.
DropboxRoute(size) == IF size < OneMiB THEN "bytes" ELSE "fd"

NextSeqAlways(seq, ok) == seq + 1

\* BinderHandler: seq_++ once SerializeProtobuf has returned
\* OK_PROFILE_COLLECTION; the early return leaves seq_ as it is.
NextSeq(seq, ok) == IF ok THEN seq + 1 ELSE seq

\* The history after a handler call with a profile of the given size: file
\* says it took the file-backed path, failed that it returned false there.
Record(h, file, failed, size) ==
  IF h.recording
    THEN [ recording |-> TRUE,
           attempts  |-> h.attempts + (IF file THEN 1 ELSE 0),
           failures  |-> h.failures + (IF failed THEN 1 ELSE 0),
           size      |-> size,
           before    |-> h.before ]
    ELSE h

\* PerfProfdNativeService::BinderHandler(encodedProfile, config); ok is
\* whether the dropbox submission or SerializeProtobuf succeeds.
BinderHandler(w, profile, ok) ==
  /\ wpc[w] = "engine"
  /\ IF cur_config_.send_to_dropbox
       THEN /\ profile # NullProfile
            /\ returned' = Ret(w, DropboxRoute(profile), ok, 0)
            /\ history' = Record(history, FALSE, FALSE, profile)
            /\ UNCHANGED seq_
       ELSE IF profile = NullProfile
         THEN /\ history.recording => history.failures < MaxFailures
              /\ returned' = Ret(w, "null", FALSE, 0)
              /\ history' = Record(history, TRUE, TRUE, profile)
              /\ UNCHANGED seq_
         ELSE /\ ok => seq_ < MaxSeq
              /\ (history.recording /\ ~ok) => history.failures < MaxFailures
              /\ returned' = Ret(w, "file", ok, seq_)
              /\ history' = Record(history, TRUE, ~ok, profile)
              /\ seq_' = NextSeq(seq_, ok)
  /\ UNCHANGED <<cur_config_, lock_, mutex_, cpc, call, result, shell, wpc, nsessions,
                 stopSession>>

\* ProfilingLoop returns; what its calls returned to it is gone with it.
EngineReturn(w) ==
  /\ wpc[w] = "engine"
  /\ WGoto(w, "done")
  /\ returned' = NoReturn
  /\ UNCHANGED <<cur_config_, lock_, mutex_, seq_, history, cpc, call, result, shell, nsessions,
                 stopSession>>

RunnerLockNone(w) ==
  /\ wpc[w] = "done"
  /\ WGoto(w, "clearing")
  /\ UNCHANGED <<cur_config_, lock_, mutex_, seq_, history, cpc, call, result, shell,
                 nsessions, stopSession, returned>>

\* profile_runner: lock_guard unset_guard(service->lock_).
RunnerLock(w) ==
  /\ wpc[w] = "done"
  /\ lock_ = Free
  /\ lock_' = w
  /\ WGoto(w, "clearing")
  /\ UNCHANGED <<cur_config_, mutex_, seq_, history, cpc, call, result, shell, nsessions,
                 stopSession, returned>>

RunnerLeavesRunning(config) == config

\* profile_runner: service->cur_config_.is_profiling = false.
RunnerClear(config) == [config EXCEPT !.is_profiling = FALSE]

\* profile_runner: the flag is cleared, lock_ released, the thread ends.
RunnerDone(w) ==
  /\ wpc[w] = "clearing"
  /\ cur_config_' = RunnerClear(cur_config_)
  /\ lock_' = Free
  /\ WGoto(w, "exited")
  /\ UNCHANGED <<mutex_, seq_, history, cpc, call, result, shell, nsessions, stopSession,
                 returned>>

----------------------------------------------------------------------------
(* Specification *)

CallerStep(t) ==
  \/ ProtoParse(t)
  \/ StartLock(t)
  \/ StartResetLock(t)
  \/ StartResetSet(t)
  \/ StartRun(t)
  \/ StopLock(t)
  \/ StopMutex(t)
  \/ StopSet(t)
  \/ StopNotify(t)
  \/ StopReturn(t)

\* Steps a profiling thread takes with a lock held, or to take one it needs
\* to finish.
RunnerStep(w) ==
  \/ RunnerLock(w)
  \/ RunnerDone(w)

CriticalStep(w) ==
  \/ SleepCheck(w)
  \/ SleepTimedOut(w)
  \/ ShouldStopProfiling(w)

\* The steps of the binder threads and the profiling threads other than the
\* engine's handler calls.
ThreadNext ==
  \/ \E t \in Callers, a \in SimpleArgs : CallStartSimple(t, a)
  \/ \E t \in Callers, d \in Descriptors : CallStartProto(t, d)
  \/ \E t \in Callers : CallStop(t)
  \/ \E t \in Callers : ProtoParse(t)
  \/ \E t \in Callers : StartLock(t)
  \/ \E t \in Callers : StartResetLock(t)
  \/ \E t \in Callers : StartResetSet(t)
  \/ \E t \in Callers : StartRun(t)
  \/ \E t \in Callers : StopLock(t)
  \/ \E t \in Callers : StopMutex(t)
  \/ \E t \in Callers : StopSet(t)
  \/ \E t \in Callers : StopNotify(t)
  \/ \E t \in Callers : StopReturn(t)
  \/ \E w \in Workers, s \in SleepSeconds : Sleep(w, s)
  \/ \E w \in Workers : SleepCheck(w)
  \/ \E w \in Workers : SleepSpurious(w)
  \/ \E w \in Workers : SleepReacquire(w)
  \/ \E w \in Workers : SleepTimeout(w)
  \/ \E w \in Workers : SleepTimedOut(w)
  \/ \E w \in Workers : ShouldStopLock(w)
  \/ \E w \in Workers : ShouldStopProfiling(w)
  \/ \E w \in Workers : EngineReturn(w)
  \/ \E w \in Workers : RunnerLock(w)
  \/ \E w \in Workers : RunnerDone(w)

Next ==
  \/ ThreadNext
  \/ \E w \in Workers, p \in Profiles, ok \in BOOLEAN : BinderHandler(w, p, ok)

Spec == Init /\ [][Next]_vars

\* The specifications below have one binder thread and an engine that only
\* returns (or only delivers), and in exchange more inputs.
Solo == <<"binder", 1>>

\* Steps of the profiling thread once the engine is to return.
FinishNext ==
  \/ \E w \in Workers : EngineReturn(w)
  \/ \E w \in Workers : RunnerLock(w)
  \/ \E w \in Workers : RunnerDone(w)

\* Steps of a start after its first.
StartNext ==
  \/ ProtoParse(Solo)
  \/ StartLock(Solo)
  \/ StartResetLock(Solo)
  \/ StartResetSet(Solo)
  \/ StartRun(Solo)

\* Steps of a stop after its first.
StopNext ==
  \/ StopLock(Solo)
  \/ StopMutex(Solo)
  \/ StopSet(Solo)
  \/ StopNotify(Solo)
  \/ StopReturn(Solo)

\* Init, with history recorded.
RecordingInit ==
  /\ cur_config_ = BinderConfig
  /\ lock_ = Free
  /\ mutex_ = Free
  /\ seq_ = 0
  /\ cpc = [t \in Callers |-> "idle"]
  /\ call = [t \in Callers |-> NoCall]
  /\ result = [t \in Callers |-> Pending]
  /\ wpc = [w \in Workers |-> "unborn"]
  /\ nsessions = 0
  /\ stopSession = 0
  /\ returned = NoReturn
  /\ shell = [t \in Callers |-> NoShell]
  /\ history = EmptyHistory

\* Config derivation: sessions started one after the other, with each
\* optional field alone in a descriptor, none and all of them.
ConfigSimpleArgs ==
  SimpleArgs \cup { [duration |-> 5, interval |-> 0, iterations |-> 3] }

ConfigDescriptors ==
  Descriptors
    \cup { [ wellformed |-> TRUE, has |-> {}, val |-> ProtoValues(3, "/tmp", FALSE) ],
           [ wellformed |-> TRUE, has |-> CopiedFromProto,
             val |-> ProtoValues(3, "/tmp", FALSE) ] }
    \cup { [ wellformed |-> TRUE, has |-> {f}, val |-> ProtoValues(3, "/tmp", FALSE) ] :
             f \in CopiedFromProto }

ConfigNext ==
  \/ \E a \in ConfigSimpleArgs : CallStartSimple(Solo, a)
  \/ \E d \in ConfigDescriptors : CallStartProto(Solo, d)
  \/ StartNext
  \/ FinishNext

ConfigSpec == RecordingInit /\ [][ConfigNext]_vars

\* Delivery: the handler called with more profile sizes, and its calls
\* recorded in history.
DeliveryProfiles == Profiles \cup {0, OneMiB + 1}

DeliveryNext ==
  \/ \E a \in SimpleArgs : CallStartSimple(Solo, a)
  \/ \E d \in Descriptors : CallStartProto(Solo, d)
  \/ StartNext
  \/ \E w \in Workers, p \in DeliveryProfiles, ok \in BOOLEAN : BinderHandler(w, p, ok)
  \/ FinishNext

DeliverySpec == RecordingInit /\ [][DeliveryNext]_vars

\* Shell commands: every call is made through shellCommand.
ShellNext ==
  \/ \E argv \in ShellArgs, in \in ShellIn, d \in Descriptors :
       ShellCommand(Solo, argv, in, d)
  \/ StartNext
  \/ StopNext
  \/ FinishNext

ShellSpec == Init /\ [][ShellNext]_vars

\* Scheduling: a binder thread inside a call keeps running and gets a free
\* lock it waits for; a profiling thread finishes a critical section it is in
\* and, once ProfilingLoop has returned, gets lock_.  Nothing is assumed of
\* the capture engine: it may never return, never poll, and a sleep may
\* never time out.
Fairness ==
  /\ \A t \in Callers : SF_vars(CallerStep(t))
  /\ \A w \in Workers : WF_vars(CriticalStep(w))
  /\ \A w \in Workers : SF_vars(RunnerStep(w))

\* The scheduling properties are checked for engines that make no handler
\* calls: BinderHandler takes neither lock and changes nothing a binder
\* thread or a lock acquisition depends on.
LiveSpec == Init /\ [][ThreadNext]_vars /\ Fairness

----------------------------------------------------------------------------
(* Properties *)

\* Profiling threads that were started and have not yet cleared is_profiling.
Live == {w \in Workers : wpc[w] \notin {"unborn", "exited"}}

\* Profiling threads inside ProfilingLoop.
InEngine ==
  {w \in Workers : wpc[w] \in {"engine", "sleep_check", "sleep_wait",
                               "sleep_woken", "sleep_timedout", "poll_read"}}

\* A binder thread whose StartProfiling passed the is_profiling test.
Starting(t) == cpc[t] \in {"start_reset", "start_reset_set", "start_fn"}

\* The state the binder threads and profiling threads share.
shared == <<cur_config_, lock_, mutex_, seq_, wpc, nsessions, stopSession,
            returned, history>>

\* C1: single-flight. In every reachable state at most one profiling thread
\* is inside the capture engine (indeed at most one has still to clear
\* is_profiling), and a start that passed the is_profiling test, the only
\* kind that returns Started, runs while no profiling thread has still to
\* clear it.
C1_SingleFlight ==
  /\ Cardinality(InEngine) <= 1
  /\ Cardinality(Live) <= 1
  /\ \A t \in Callers : Starting(t) => Live = {}

\* A second start is waiting for lock_ while the first session's thread is
\* blocked in Sleep.
C1_Witness ==
  \E t \in Callers :
    /\ cpc[t] = "start_lock"
    /\ wpc[Worker(1)] = "sleep_wait"

\* C2: a start (simple, or structured with a descriptor that parsed) that
\* reaches the is_profiling test while is_profiling is true returns
\* AlreadyRunning and changes nothing: cur_config_ (settings, is_profiling,
\* interrupted_), the locks, seq_ and the profiling threads are as before.
C2_StartWhileRunning ==
  [][\A t \in Callers :
       (cpc[t] = "start_lock" /\ cpc'[t] # "start_lock" /\ running)
         => /\ cpc'[t] = "idle"
            /\ result'[t] = [op |-> call[t].kind, status |-> AlreadyRunning]
            /\ shared' = shared]_vars

\* Both kinds of start were rejected while the session of the first one is
\* still in the capture engine with the settings of its own start.
C2_Witness ==
  /\ result[<<"binder", 1>>] = [op |-> "simple", status |-> AlreadyRunning]
  /\ result[<<"binder", 2>>] = [op |-> "proto", status |-> AlreadyRunning]
  /\ running
  /\ wpc[Worker(1)] = "engine"
  /\ nsessions = 1

\* C3: a stop that reaches the is_profiling test while is_profiling is false
\* returns NotRunning and changes nothing; interrupted_ in particular is not
\* set.
C3_StopWhileNotRunning ==
  [][\A t \in Callers :
       (cpc[t] = "stop_lock" /\ cpc'[t] # "stop_lock" /\ ~running)
         => /\ cpc'[t] = "idle"
            /\ result'[t] = [op |-> "stop", status |-> NotRunning]
            /\ shared' = shared]_vars

\* A stop was rejected before any session existed, and the session started
\* afterwards polls ShouldStopProfiling and reads false.
C3_Witness ==
  \E t \in Callers :
    /\ result[t] = [op |-> "stop", status |-> NotRunning]
    /\ stopSession = 0
    /\ returned = [session |-> 1, call |-> "poll", value |-> FALSE, seq |-> 0]

\* C4: no stale cancellation. Whenever a profiling thread has read
\* interrupted_ = true (in ShouldStopProfiling or in Sleep's predicate), the
\* last stopProfiling that set interrupted_ did so during that thread's own
\* session, that is after the start of that session set is_profiling and
\* before any later session.
C4_NoStaleCancellation ==
  (returned.call \in {"poll", "sleep_interrupted", "sleep_timeout"} /\ returned.value)
    => returned.session = stopSession

\* The first session was stopped and is over; the second session polls and
\* reads false.
C4_Witness ==
  /\ stopSession = 1
  /\ wpc[Worker(1)] = "exited"
  /\ returned = [session |-> 2, call |-> "poll", value |-> FALSE, seq |-> 0]

\* C5: a structured start whose descriptor does not parse returns
\* MalformedConfig from the parse step, never gets further, and changes
\* nothing: cur_config_, the locks, seq_, the profiling threads are as before.
C5_MalformedConfig ==
  [][\A t \in Callers :
       (call[t].kind = "proto" /\ ~call[t].desc.wellformed /\ cpc'[t] # cpc[t])
         => /\ cpc[t] = "parse"
            /\ cpc'[t] = "idle"
            /\ result'[t] = [op |-> "proto", status |-> MalformedConfig]
            /\ shared' = shared]_vars

\* A malformed descriptor was rejected with no session ever started.
C5_Witness ==
  \E t \in Callers :
    /\ result[t] = [op |-> "proto", status |-> MalformedConfig]
    /\ ~running
    /\ nsessions = 0
    /\ cur_config_ = BinderConfig

\* C6: a stop is not dropped. From the moment stopProfiling has set
\* interrupted_ (so also when it returns Stopped) until the profiling thread
\* of the session that was running has cleared is_profiling, interrupted_ is
\* true; and every ShouldStopProfiling of that thread in between returns true.
C6_StopNotDropped ==
  /\ [](\A t \in Callers : cpc[t] \in {"stop_notify", "stop_return"} => cancelled)
  /\ [](\A w \in Workers : (stopSession = w[2] /\ wpc[w] # "exited") => cancelled)
  /\ [][\A w \in Workers :
          (stopSession = w[2] /\ wpc[w] = "poll_read" /\ wpc'[w] # "poll_read")
            => returned' = [session |-> w[2], call |-> "poll", value |-> TRUE,
                            seq |-> 0]]_vars

\* The first session was stopped, its engine has returned but is_profiling is
\* not yet cleared, and a new start is already waiting for lock_.
C6_Witness ==
  \E t \in Callers :
    /\ stopSession = 1
    /\ result[t] = [op |-> "stop", status |-> Stopped]
    /\ wpc[Worker(1)] = "done"
    /\ \E u \in Callers : cpc[u] = "start_lock"

\* C7: no lost wake-up. A profiling thread is never blocked in cv_.wait_for
\* while interrupted_ is true, except while the stopProfiling that set it
\* still holds mutex_ and is about to notify.
C7_NoLostWakeup ==
  \A w \in Workers :
    (wpc[w] = "sleep_wait" /\ cancelled)
      => \E t \in Callers : cpc[t] = "stop_notify" /\ mutex_ = t

\* A sleeper blocked in wait_for was woken by stopProfiling's notify_all.
C7_Witness ==
  \E w \in Workers, t \in Callers :
    /\ wpc[w] = "sleep_woken"
    /\ cpc[t] = "stop_return"
    /\ cancelled

\* C8: under LiveSpec's scheduling, which lets the capture engine run forever
\* and a sleep last forever, every call of a binder thread returns.
C8_CallsReturn ==
  \A t \in Callers : (cpc[t] # "idle") ~> (cpc[t] = "idle")

\* A stop needs mutex_ while the profiling thread is blocked in Sleep.
C8_Witness ==
  \E t \in Callers, w \in Workers :
    /\ cpc[t] = "stop_mutex"
    /\ wpc[w] = "sleep_wait"

\* C9: is_profiling changes only false -> true in StartProfiling's test step,
\* which takes lock_, and true -> false in the profiling thread's last step,
\* which holds lock_.
C9_RunningFrame ==
  [][running' # running =>
       \/ \E t \in Callers :
            /\ cpc[t] = "start_lock" /\ cpc'[t] = "start_reset"
            /\ lock_ = Free /\ lock_' = t
            /\ ~running /\ running'
       \/ \E w \in Workers :
            /\ wpc[w] = "clearing" /\ wpc'[w] = "exited"
            /\ lock_ = w
            /\ running /\ ~running']_vars

\* A delivery failed and a stop was accepted, and is_profiling is still true.
C9_Witness ==
  \E t \in Callers :
    /\ result[t] = [op |-> "stop", status |-> Stopped]
    /\ returned.call = "file"
    /\ ~returned.value
    /\ running

\* C10: under LiveSpec's scheduling, once ProfilingLoop has returned the
\* profiling thread clears is_profiling; a start that then finds
\* is_profiling false passes the test and returns Started.
C10_CompletionAndRestart ==
  /\ \A w \in Workers : (wpc[w] = "done") ~> (wpc[w] = "exited" /\ ~running)
  /\ [][\A t \in Callers :
          (cpc[t] = "start_lock" /\ cpc'[t] # "start_lock" /\ ~running)
            => Starting(t)']_vars
  /\ \A t \in Callers :
       Starting(t) ~> (cpc[t] = "idle" /\ result[t].status = Started)

\* A second session is in the capture engine after the first one completed.
C10_Witness ==
  /\ wpc[Worker(1)] = "exited"
  /\ wpc[Worker(2)] = "engine"
  /\ running

----------------------------------------------------------------------------
(* Config derivation *)

\* The default settings with the three arguments of startProfiling stored.
DefaultsWith(a) ==
  [ Settings(BinderConfig) EXCEPT
      !.sample_duration_in_s     = ToUint32(a.duration),
      !.collection_interval_in_s = ToUint32(a.interval),
      !.main_loop_iterations     = ToUint32(a.iterations) ]

\* C11: config freshness. Whatever settings earlier sessions left in
\* cur_config_, a startProfiling(duration, interval, iterations) that returns
\* Started leaves the settings equal to those of a default BinderConfig with
\* sample_duration_in_s, collection_interval_in_s and main_loop_iterations
\* set from the arguments; no other value is kept from before.
C11_ConfigFreshness ==
  [][\A t \in Callers :
       (cpc[t] = "start_fn" /\ call[t].kind = "simple" /\ cpc'[t] = "idle")
         => /\ result'[t] = [op |-> "simple", status |-> Started]
            /\ Settings(cur_config_') = DefaultsWith(call[t].args)]_vars

\* startProfiling(5, 0, 3) returned Started after a structured session that
\* had set every optional field: the settings it found had send_to_dropbox
\* false and another destination directory and process, the settings it
\* left have the defaults there.
C11_Witness ==
  /\ result[Solo] = [op |-> "simple", status |-> Started]
  /\ history.before.send_to_dropbox = FALSE
  /\ history.before.destination_directory = "/tmp"
  /\ history.before.process = 42
  /\ Settings(cur_config_) = DefaultsWith([duration |-> 5, interval |-> 0, iterations |-> 3])
  /\ cur_config_.send_to_dropbox = TRUE
  /\ wpc[Worker(2)] = "engine"

\* The settings in which c differs from a default BinderConfig.
NonDefault(c) == {f \in ProtoFields : c[f] # BinderConfig[f]}

\* C12: structured overlay. A startProfilingProtobuf with a descriptor that
\* parses and that returns Started leaves every setting the descriptor
\* carries at the descriptor's value and every other setting at its default,
\* whatever the settings were before; with one optional field in the
\* descriptor the settings differ from the defaults in that field only.
C12_StructuredOverlay ==
  [][\A t \in Callers :
       (cpc[t] = "start_fn" /\ call[t].kind = "proto" /\ cpc'[t] = "idle")
         => LET desc == call[t].desc
            IN /\ ParseFromArray(desc)
               /\ result'[t] = [op |-> "proto", status |-> Started]
               /\ \A f \in ProtoFields :
                    cur_config_'[f] = IF f \in desc.has THEN desc.val[f]
                                                       ELSE BinderConfig[f]
               /\ Cardinality(desc.has) = 1 => NonDefault(cur_config_') = desc.has]_vars

\* A structured start with stack_profile alone returned Started after a
\* session whose settings had send_to_dropbox false and another destination
\* directory: the settings now differ from the defaults in stack_profile
\* only.
C12_Witness ==
  /\ result[Solo] = [op |-> "proto", status |-> Started]
  /\ history.before.send_to_dropbox = FALSE
  /\ history.before.destination_directory = "/tmp"
  /\ NonDefault(cur_config_) = {"stack_profile"}
  /\ wpc[Worker(2)] = "engine"

----------------------------------------------------------------------------
(* Delivery *)

\* The engine of a profiling thread called the handler in this step, and the
\* handler returned.
HandlerStep ==
  /\ wpc' = wpc
  /\ <<returned, history>>' # <<returned, history>>
  /\ returned'.call \in {"bytes", "fd", "file", "null"}
  /\ wpc[Worker(returned'.session)] = "engine"

\* C13: delivery routing boundary. With send_to_dropbox set, a profile of
\* fewer than 1048576 bytes is handed to the dropbox as a byte buffer and one
\* of 1048576 bytes or more through WriteDropboxFile; 1048575 bytes go as a
\* buffer, 1048576 bytes through the file.
C13_RoutingBoundary ==
  [][(HandlerStep /\ cur_config_.send_to_dropbox)
       => /\ history'.size < 1048576 => returned'.call = "bytes"
          /\ history'.size >= 1048576 => returned'.call = "fd"
          /\ history'.size = 1048575 => returned'.call = "bytes"
          /\ history'.size = 1048576 => returned'.call = "fd"
          /\ seq_' = seq_]_vars

\* The handler was last called with a profile of exactly 1048576 bytes while
\* send_to_dropbox was set, and took the file path of the dropbox.
C13_Witness ==
  /\ cur_config_.send_to_dropbox
  /\ history.size = 1048576
  /\ returned.call = "fd"
  /\ wpc[Worker(returned.session)] = "engine"

\* C14: delivery sequence counter. seq_ starts at 0 and always equals the
\* number of file-backed handler calls made so far, in all sessions, minus
\* the number of them that failed; a successful write adds exactly one, a
\* failed one leaves it, no step lowers it, and the file of an attempt is
\* named with the value seq_ had before that attempt.
C14_SequenceCounter ==
  /\ [](seq_ = history.attempts - history.failures)
  /\ [][seq_' >= seq_]_vars
  /\ [][(HandlerStep /\ returned'.call = "file")
          => /\ returned'.seq = seq_
             /\ returned'.value => seq_' = seq_ + 1
             /\ ~returned'.value => seq_' = seq_]_vars
  /\ [][(HandlerStep /\ returned'.call = "null") => seq_' = seq_]_vars

\* In the second session, after four file-backed attempts of which two
\* failed, the last attempt succeeded and named its file with 1; seq_ is 2.
C14_Witness ==
  /\ history.attempts = 4
  /\ history.failures = 2
  /\ seq_ = 2
  /\ returned = [session |-> 2, call |-> "file", value |-> TRUE, seq |-> 1]
  /\ wpc[Worker(1)] = "exited"

----------------------------------------------------------------------------
(* Shell commands *)

\* The position after the longest run of digits of the base from position i.
RECURSIVE DigitsEnd(_, _, _)
DigitsEnd(s, i, base) ==
  IF DigitValue(CharAt(s, i)) >= base THEN i ELSE DigitsEnd(s, i + 1, base)

\* s is an integer as strtol with base 0 reads one: sign, prefix and digits
\* make up the whole string, and there is at least one digit.
Numeric(s) ==
  LET signed == CharAt(s, 1) \in {"-", "+"}
      first  == IF signed THEN 2 ELSE 1
      hex    == /\ CharAt(s, first) = "0"
                /\ CharAt(s, first + 1) \in {"x", "X"}
                /\ DigitValue(CharAt(s, first + 2)) < 16
      base   == IF hex THEN 16 ELSE IF CharAt(s, first) = "0" THEN 8 ELSE 10
      start  == IF hex THEN first + 2 ELSE first
      end    == DigitsEnd(s, start, base)
  IN end > start /\ end = Len(s) + 1

\* An argument vector with too few arguments for its command, with an
\* argument of startProfiling that is not a number, or without a command
\* that shellCommand knows.
Malformed(argv) ==
  IF Len(argv) = 0 THEN TRUE
  ELSE CASE argv[1] = "dump" -> FALSE
         [] argv[1] = "startProfiling" ->
              \/ Len(argv) < 4
              \/ \E i \in 2..4 : ~Numeric(argv[i])
         [] argv[1] = "startProfilingProto" -> Len(argv) < 2
         [] argv[1] = "stopProfiling" -> FALSE
         [] OTHER -> TRUE

\* Binder thread t entered shellCommand in this step.
ShellStep(t) == cpc[t] = "idle" /\ shell'[t] # shell[t]

\* C15: a shell command with too few arguments or with an argument of the
\* wrong type (a duration, interval or iteration count that is not a number)
\* returns BAD_VALUE, which none of AlreadyRunning, NotRunning and
\* MalformedConfig is returned as, makes no call of startProfiling,
\* startProfilingProtobuf or stopProfiling, and leaves the session state.
C15_BadInput ==
  [][\A t \in Callers :
       (ShellStep(t) /\ Malformed(shell'[t].argv))
         => /\ shell'[t].done
            /\ shell'[t].ret = BAD_VALUE
            /\ BAD_VALUE \notin { ShellStatus(AlreadyRunning), ShellStatus(NotRunning),
                                  ShellStatus(MalformedConfig) }
            /\ cpc'[t] = "idle"
            /\ call'[t] = NoCall
            /\ shared' = shared]_vars

\* C18: every failing outcome is surfaced by the shell command that wraps
\* the call. When startProfiling, startProfilingProto or stopProfiling made
\* the call, shellCommand returns a status other than OK whenever the call
\* returned AlreadyRunning, NotRunning or MalformedConfig, and OK only when
\* the call returned Started or Stopped.
C18_FailuresSurfaced ==
  [][\A t \in Callers :
       (shell[t].active /\ shell'[t].done)
         => /\ result'[t].status \in {AlreadyRunning, NotRunning, MalformedConfig}
                 => shell'[t].ret # OK
            /\ shell'[t].ret = OK => result'[t].status \in {Started, Stopped}]_vars

----------------------------------------------------------------------------
(* Locking *)

Threads == Callers \cup Workers

\* The position of a thread, binder or profiling.
pc(th) == IF th \in Callers THEN cpc[th] ELSE wpc[th]

\* Positions at which the next step of a thread reads or writes
\* interrupted_: ResetStopProfiling, StopProfiling, the predicate of
\* cv_.wait_for in Sleep, ShouldStopProfiling.
AtInterrupted(th) ==
  pc(th) \in {"start_reset_set", "stop_set", "sleep_check", "sleep_timedout",
              "poll_read"}

\* Positions at which the next step of a thread writes is_profiling or the
\* settings: fn(cur_config_) in StartProfiling, the reset in profile_runner.
AtRunningOrSettings(th) == pc(th) \in {"start_fn", "clearing"}

\* The mutex cv_.wait_for is called with.
WaiterMutex == mutex_

\* C16 as stated: one mutex guards everything. Whenever a thread is about to
\* read or write is_profiling, interrupted_ or the settings in Start, Stop,
\* the completion step, ShouldStopProfiling or Sleep, it holds the one mutex
\* that the condition variable waits on.
C16_OneMutex ==
  \A th \in Threads :
    (AtInterrupted(th) \/ AtRunningOrSettings(th)) => WaiterMutex = th

\* C16 amended: two mutexes share the work. is_profiling and the settings
\* are read and written by Start, Stop and the completion step with lock_
\* held; interrupted_ is read and written by Start, Stop,
\* ShouldStopProfiling and Sleep with mutex_ held, which is also the mutex
\* the condition variable waits on (a blocked waiter has released it); and
\* Start and Stop hold lock_ while they take mutex_.
C16_TwoMutexes ==
  /\ [](\A th \in Threads :
          /\ AtInterrupted(th) => mutex_ = th
          /\ AtRunningOrSettings(th) => lock_ = th
          /\ (th \in Callers /\ mutex_ = th) => lock_ = th
          /\ pc(th) \in {"sleep_wait", "sleep_woken"} => mutex_ # th)
  /\ [][cancelled' # cancelled => mutex_ \in Callers /\ lock_ = mutex_]_vars
  /\ [][running' # running => (lock_ \in Workers \/ lock_' \in Callers)]_vars
  /\ [][Settings(cur_config_') # Settings(cur_config_)
          => (lock_ \in Callers /\ mutex_ # lock_)]_vars

\* A profiling thread is about to read interrupted_ in ShouldStopProfiling
\* with mutex_ held while a binder thread inside stopProfiling holds lock_
\* and waits for mutex_.
C16_Witness ==
  \E t \in Callers, w \in Workers :
    /\ wpc[w] = "poll_read"
    /\ mutex_ = w
    /\ cpc[t] = "stop_mutex"
    /\ lock_ = t

\* The thread that th is blocked on: the holder of the lock that th's next
\* step has to take, or Free when th is not blocked.
Blocker(th) ==
  IF pc(th) \in {"start_lock", "stop_lock", "done"} THEN lock_
  ELSE IF pc(th) \in {"start_reset", "stop_mutex", "sleep_woken"} THEN mutex_
  ELSE Free

\* th is on a cycle of threads each blocked on the next, th counted.
RECURSIVE BlockedOnChain(_, _, _)
BlockedOnChain(th, cur, n) ==
  IF n = 0 \/ Blocker(cur) = Free THEN FALSE
  ELSE Blocker(cur) = th \/ BlockedOnChain(th, Blocker(cur), n - 1)

\* th can take a step.
CanStep(th) ==
  IF th \in Callers
    THEN ENABLED CallerStep(th)
    ELSE ENABLED (CriticalStep(th) \/ RunnerStep(th) \/ SleepReacquire(th))

\* C19: deadlock freedom. No set of threads is blocked in a circle on
\* lock_ and mutex_, and whoever holds a lock can take a step or waits for
\* the other lock, whose holder can; a binder thread holds mutex_ only
\* inside lock_ (the order is lock_, then mutex_) and holds neither while it
\* waits for lock_; a profiling thread never holds both and holds neither
\* while it waits for one.
C19_NoDeadlock ==
  /\ \A th \in Threads : ~BlockedOnChain(th, th, Cardinality(Threads))
  /\ \A th \in Threads :
       (lock_ = th \/ mutex_ = th)
         => \/ CanStep(th)
            \/ Blocker(th) # Free /\ Blocker(th) # th /\ CanStep(Blocker(th))
  /\ \A t \in Callers :
       /\ mutex_ = t => lock_ = t
       /\ cpc[t] \in {"start_lock", "stop_lock"} => (lock_ # t /\ mutex_ # t)
       /\ cpc[t] \in {"start_reset", "stop_mutex"} => (lock_ = t /\ mutex_ # t)
  /\ \A w \in Workers :
       /\ ~(lock_ = w /\ mutex_ = w)
       /\ wpc[w] \in {"engine", "sleep_wait", "sleep_woken", "done"}
            => (lock_ # w /\ mutex_ # w)

\* One binder thread waits for lock_, which another holds inside
\* stopProfiling while it waits for mutex_, which the profiling thread
\* holds in Sleep; the profiling thread can step.
C19_Witness ==
  \E t1, t2 \in Callers, w \in Workers :
    /\ cpc[t1] \in {"start_lock", "stop_lock"}
    /\ cpc[t2] = "stop_mutex"
    /\ lock_ = t2
    /\ wpc[w] = "sleep_check"
    /\ mutex_ = w
    /\ Blocker(t1) = t2
    /\ Blocker(t2) = w
    /\ CanStep(w)

----------------------------------------------------------------------------
(* Settings of a session *)

\* C17: session config immutability. From the step in which a start that
\* returns Started has applied fn(cur_config_) and created the profiling
\* thread until that thread clears is_profiling, no step of any start, stop
\* or handler call changes a setting of cur_config_.
C17_SettingsImmutable ==
  [][Live # {} => Settings(cur_config_') = Settings(cur_config_)]_vars

\* The second session, started with a descriptor, is in the capture engine
\* and its handler wrote a file; since it started a startProfiling was
\* rejected and a stopProfiling returned, and the settings are still those of
\* the descriptor.
C17_Witness ==
  \E t1, t2 \in Callers :
    /\ result[t1] = [op |-> "simple", status |-> AlreadyRunning]
    /\ result[t2] = [op |-> "stop", status |-> Stopped]
    /\ stopSession = 2
    /\ wpc[Worker(2)] = "engine"
    /\ returned = [session |-> 2, call |-> "file", value |-> TRUE, seq |-> 0]
    /\ cur_config_.send_to_dropbox = FALSE
    /\ cur_config_.destination_directory = "/tmp"

----------------------------------------------------------------------------
(* Outcome precedence *)

\* C20: outcome precedence of startProfilingProtobuf. The descriptor is
\* parsed first, by a thread that does not hold lock_ and without a look at
\* is_profiling: a descriptor that does not parse returns MalformedConfig,
\* also while a session is running, and changes nothing; AlreadyRunning is
\* returned only to calls whose descriptor parsed.
C20_ParseBeforeCheck ==
  [][\A t \in Callers :
       /\ (cpc[t] = "parse" /\ cpc'[t] # "parse")
            => /\ lock_ # t /\ lock_' # t
               /\ shared' = shared
               /\ IF call[t].desc.wellformed
                    THEN cpc'[t] = "start_lock"
                    ELSE /\ cpc'[t] = "idle"
                         /\ result'[t] = [op |-> "proto", status |-> MalformedConfig]
       /\ (call[t].kind = "proto" /\ result'[t].status = AlreadyRunning
             /\ result[t] = Pending)
            => (call[t].desc.wellformed /\ cpc[t] = "start_lock" /\ running)]_vars

\* The one binder thread that has made calls started the session that is
\* still in the capture engine and then got MalformedConfig for a
\* descriptor that does not parse.
C20_Witness ==
  \E t1, t2 \in Callers :
    /\ t1 # t2
    /\ result[t1] = [op |-> "proto", status |-> MalformedConfig]
    /\ cpc[t1] = "idle"
    /\ result[t2] = Pending
    /\ cpc[t2] = "idle"
    /\ nsessions = 1
    /\ wpc[Worker(1)] = "engine"
    /\ running

====
